---- MODULE Spec2Model ----
(***************************************************************************)
(* Model of generate_language_stats.py: the pipeline                       *)
(*   fetch_repositories -> fetch_language_stats -> get_top_languages       *)
(*   -> generate_svg                                                       *)
(* run once by main().  The remote API is the environment: every response  *)
(* (a page of repository records, a language breakdown, a transport        *)
(* failure) is chosen nondeterministically from bounded sets.              *)
(*                                                                         *)
(* A dict is modelled as the sequence of its items in insertion order,     *)
(* which is the order Python iterates it in.  A float percentage           *)
(* (bytes_count / total_bytes) * 100 is modelled as the exact rational     *)
(* num / den with num = bytes_count * 100 and den = total_bytes.           *)
(***************************************************************************)
EXTENDS Integers, Sequences, FiniteSets, TLC

VARIABLES
    pc,            \* position of the run
    page,          \* fetch_repositories: the page counter
    repos,         \* fetch_repositories: the accumulated list; then main's repos
    listing_log,   \* history: every listing request issued, with its response
    idx,           \* fetch_language_stats: position of the for loop in repos
    language_bytes,\* fetch_language_stats: the running totals (a dict)
    lang_log,      \* history: the outcome of every iteration of that for loop
    top_n,         \* get_top_languages: its top_n argument
    top_languages, \* the ranked list returned by get_top_languages
    svg,           \* the content of the output file
    exit_status    \* <<>> while running, <<s>> once main returned s

vars == <<pc, page, repos, listing_log, idx, language_bytes, lang_log,
          top_n, top_languages, svg, exit_status>>

-----------------------------------------------------------------------------
(* Bounds of the model                                                     *)

MaxPages == 2

MaxRepos == 3

MaxBytes == 1

MaxTopN == 3

(* Languages and byte counts the remote reports in the pipeline, and       *)
(* languages of the byte maps get_top_languages is applied to directly,    *)
(* whose byte counts are 0..MaxBytes.                                      *)
RespLangs == {"Python", "Zig"}

RespBytes == {0, 1}

RankLangs == {"Python", "Go", "Zig", "Nim"}

-----------------------------------------------------------------------------
(* Program constants                                                       *)

DefaultTopN == 6

LANGUAGE_COLORS ==
    [l \in {"Python", "JavaScript", "TypeScript", "Java", "C", "C++", "C#",
            "PHP", "Ruby", "Go", "Rust", "Swift", "Kotlin", "Dart", "Shell",
            "HTML", "CSS", "Vue", "Jupyter Notebook", "R", "Scala", "Perl",
            "Haskell", "Lua", "Objective-C", "MATLAB"} |->
        CASE l = "Python" -> "#3572A5"
          [] l = "JavaScript" -> "#f1e05a"
          [] l = "TypeScript" -> "#2b7489"
          [] l = "Java" -> "#b07219"
          [] l = "C" -> "#555555"
          [] l = "C++" -> "#f34b7d"
          [] l = "C#" -> "#178600"
          [] l = "PHP" -> "#4F5D95"
          [] l = "Ruby" -> "#701516"
          [] l = "Go" -> "#00ADD8"
          [] l = "Rust" -> "#dea584"
          [] l = "Swift" -> "#ffac45"
          [] l = "Kotlin" -> "#F18E33"
          [] l = "Dart" -> "#00B4AB"
          [] l = "Shell" -> "#89e051"
          [] l = "HTML" -> "#e34c26"
          [] l = "CSS" -> "#563d7c"
          [] l = "Vue" -> "#41b883"
          [] l = "Jupyter Notebook" -> "#DA5B0B"
          [] l = "R" -> "#198CE7"
          [] l = "Scala" -> "#c22d40"
          [] l = "Perl" -> "#0298c3"
          [] l = "Haskell" -> "#5e5086"
          [] l = "Lua" -> "#000080"
          [] l = "Objective-C" -> "#438eff"
          [] l = "MATLAB" -> "#e16737"]

DEFAULT_COLOR == "#858585"

-----------------------------------------------------------------------------
(* Sequences                                                               *)

RECURSIVE Reverse(_)
Reverse(s) == IF s = <<>> THEN <<>> ELSE Append(Reverse(Tail(s)), Head(s))

(* All sequences over S of length lo..hi *)
SeqsOf(S, lo, hi) == UNION {[1..n -> S] : n \in lo..hi}

-----------------------------------------------------------------------------
(* The remote API                                                          *)

(* A repository record of a listing page.  fork is the value of            *)
(* repo.get('fork', False); has_url is the truth of                        *)
(* repo.get('languages_url'); name tells the records apart.  Only a record *)
(* that is no fork has its languages_url read, so a fork comes in one kind.*)
RepoKinds ==
    {k \in [fork : BOOLEAN, has_url : BOOLEAN] : k.fork => k.has_url}

MkRepo(name, kind) == [name |-> name, fork |-> kind.fork, has_url |-> kind.has_url]

(* Number of records the remote has served so far *)
RECURSIVE Served(_)
Served(log) ==
    IF log = <<>> THEN 0 ELSE Len(Head(log).body) + Served(Tail(log))

(* The non-empty pages the remote may serve next: the records are numbered *)
(* on from those already served, and at most MaxRepos are served in all.   *)
PageBodies(log) ==
    LET base == Served(log)
    IN  {[i \in 1..Len(ks) |-> MkRepo(base + i, ks[i])] :
            ks \in SeqsOf(RepoKinds, 1, MaxRepos - base)}

(* A dict with distinct keys from L and values from B, as the sequence of  *)
(* its items in insertion order.                                           *)
Items(L, B) == [language : L, bytes_count : B]

DistinctKeys(m) == \A i, j \in 1..Len(m) : i # j => m[i].language # m[j].language

ByteMaps(L, B) == {m \in SeqsOf(Items(L, B), 0, Cardinality(L)) : DistinctKeys(m)}

-----------------------------------------------------------------------------
(* fetch_repositories                                                      *)

(* Variant: the comprehension without its condition *)
NonForkRepos_KeepAll(page_repos) == page_repos

(* [repo for repo in page_repos if not repo.get('fork', False)] *)
NonForkRepos(page_repos) == SelectSeq(page_repos, LAMBDA repo : ~repo.fork)

(* One iteration of the while loop whose response is a non-empty page *)
ListPageOk ==
    /\ pc = "list"
    /\ page <= MaxPages
    /\ \E page_repos \in PageBodies(listing_log) :
          /\ repos' = repos \o NonForkRepos(page_repos)
          /\ listing_log' = Append(listing_log,
                 [page |-> page, status |-> "ok", body |-> page_repos])
    /\ page' = page + 1
    /\ UNCHANGED <<pc, idx, language_bytes, lang_log, top_n, top_languages,
                   svg, exit_status>>

(* The iteration whose response is an empty page: break *)
ListPageEmpty ==
    /\ pc = "list"
    /\ listing_log' = Append(listing_log,
           [page |-> page, status |-> "ok", body |-> <<>>])
    /\ pc' = "listed"
    /\ UNCHANGED <<page, repos, idx, language_bytes, lang_log, top_n,
                   top_languages, svg, exit_status>>

(* Variant: the failure empties the accumulated list *)
ListPageError_DropsPartial ==
    /\ pc = "list"
    /\ listing_log' = Append(listing_log,
           [page |-> page, status |-> "error", body |-> <<>>])
    /\ repos' = <<>>
    /\ pc' = "listed"
    /\ UNCHANGED <<page, idx, language_bytes, lang_log, top_n,
                   top_languages, svg, exit_status>>

(* Variant: the exception is not caught and ends the process *)
ListPageError_Fatal ==
    /\ pc = "list"
    /\ listing_log' = Append(listing_log,
           [page |-> page, status |-> "error", body |-> <<>>])
    /\ pc' = "crashed"
    /\ exit_status' = <<1>>
    /\ UNCHANGED <<page, repos, idx, language_bytes, lang_log, top_n,
                   top_languages, svg>>

(* Variant: continue instead of break, the same page is requested again *)
ListPageError_Retry ==
    /\ pc = "list"
    /\ listing_log' = Append(listing_log,
           [page |-> page, status |-> "error", body |-> <<>>])
    /\ UNCHANGED <<pc, page, repos, idx, language_bytes, lang_log, top_n,
                   top_languages, svg, exit_status>>

(* The iteration whose request raises RequestException: log, break *)
ListPageError ==
    /\ pc = "list"
    /\ listing_log' = Append(listing_log,
           [page |-> page, status |-> "error", body |-> <<>>])
    /\ pc' = "listed"
    /\ UNCHANGED <<page, repos, idx, language_bytes, lang_log, top_n,
                   top_languages, svg, exit_status>>

-----------------------------------------------------------------------------
(* fetch_language_stats                                                    *)

(* language_bytes[language] += bytes_count on a defaultdict(int): an       *)
(* existing key keeps its place, a new key is inserted last, from 0.       *)
AddBytes(m, language, bytes_count) ==
    IF \E i \in 1..Len(m) : m[i].language = language
    THEN [i \in 1..Len(m) |->
            IF m[i].language = language
            THEN [language |-> language,
                  bytes_count |-> m[i].bytes_count + bytes_count]
            ELSE m[i]]
    ELSE Append(m, [language |-> language, bytes_count |-> 0 + bytes_count])

(* for language, bytes_count in languages.items(): ... *)
RECURSIVE AddLanguages(_, _)
AddLanguages(m, languages) ==
    IF languages = <<>> THEN m
    ELSE AddLanguages(AddBytes(m, Head(languages).language,
                               Head(languages).bytes_count),
                      Tail(languages))

(* An iteration for a repository without languages_url: continue *)
FetchLangSkip ==
    /\ pc = "aggregate"
    /\ idx <= Len(repos)
    /\ ~repos[idx].has_url
    /\ lang_log' = Append(lang_log,
           [name |-> repos[idx].name, status |-> "skipped", languages |-> <<>>])
    /\ idx' = idx + 1
    /\ UNCHANGED <<pc, page, repos, listing_log, language_bytes, top_n,
                   top_languages, svg, exit_status>>

(* An iteration whose request succeeds with some language breakdown *)
FetchLangOk ==
    /\ pc = "aggregate"
    /\ idx <= Len(repos)
    /\ repos[idx].has_url
    /\ \E languages \in ByteMaps(RespLangs, RespBytes) :
          /\ language_bytes' = AddLanguages(language_bytes, languages)
          /\ lang_log' = Append(lang_log,
                 [name |-> repos[idx].name, status |-> "ok",
                  languages |-> languages])
    /\ idx' = idx + 1
    /\ UNCHANGED <<pc, page, repos, listing_log, top_n, top_languages, svg,
                   exit_status>>

(* Variant: break instead of continue *)
FetchLangError_Break ==
    /\ pc = "aggregate"
    /\ idx <= Len(repos)
    /\ repos[idx].has_url
    /\ lang_log' = Append(lang_log,
           [name |-> repos[idx].name, status |-> "error", languages |-> <<>>])
    /\ idx' = Len(repos) + 1
    /\ UNCHANGED <<pc, page, repos, listing_log, language_bytes, top_n,
                   top_languages, svg, exit_status>>

(* An iteration whose request raises RequestException: log, continue *)
FetchLangError ==
    /\ pc = "aggregate"
    /\ idx <= Len(repos)
    /\ repos[idx].has_url
    /\ lang_log' = Append(lang_log,
           [name |-> repos[idx].name, status |-> "error", languages |-> <<>>])
    /\ idx' = idx + 1
    /\ UNCHANGED <<pc, page, repos, listing_log, language_bytes, top_n,
                   top_languages, svg, exit_status>>

-----------------------------------------------------------------------------
(* get_top_languages                                                       *)

(* sum(language_bytes.values()) *)
RECURSIVE SumBytes(_)
SumBytes(m) ==
    IF m = <<>> THEN 0 ELSE Head(m).bytes_count + SumBytes(Tail(m))

(* Insertion of x into the ascending run s to the right of every element   *)
(* whose key is not greater: the step of list.sort's binary insertion sort *)
RECURSIVE InsertAsc(_, _)
InsertAsc(s, x) ==
    IF s = <<>> THEN <<x>>
    ELSE IF x.bytes_count < Head(s).bytes_count THEN <<x>> \o s
    ELSE <<Head(s)>> \o InsertAsc(Tail(s), x)

(* The stable ascending sort by x[1] *)
RECURSIVE SortAsc(_)
SortAsc(s) ==
    IF s = <<>> THEN <<>>
    ELSE InsertAsc(SortAsc(SubSeq(s, 1, Len(s) - 1)), s[Len(s)])

(* Variant: sorted(items, key=...)[::-1] *)
SortedDesc_Unstable(items) == Reverse(SortAsc(items))

(* sorted(items, key=lambda x: x[1], reverse=True): list.sort reverses the *)
(* list, sorts it ascending and stably, and reverses the result.           *)
SortedDesc(items) == Reverse(SortAsc(Reverse(items)))

(* Variant: s[-n:] *)
Slice_FromEnd(s, n) ==
    SubSeq(s, IF n < Len(s) THEN Len(s) - n + 1 ELSE 1, Len(s))

(* s[:n] *)
Slice(s, n) ==
    IF n >= 0 THEN SubSeq(s, 1, IF n < Len(s) THEN n ELSE Len(s))
    ELSE SubSeq(s, 1, IF Len(s) + n > 0 THEN Len(s) + n ELSE 0)

(* Variant: bytes_count / total_bytes, a fraction and no percentage *)
Percentage_Fraction(bytes_count, total_bytes) ==
    [num |-> bytes_count, den |-> total_bytes]

(* (bytes_count / total_bytes) * 100, as the rational num / den *)
Percentage(bytes_count, total_bytes) ==
    [num |-> bytes_count * 100, den |-> total_bytes]

(* Variant: the total is taken over the top entries only *)
get_top_languages_TopTotal(m, n) ==
    IF m = <<>> THEN <<>>
    ELSE IF SumBytes(m) = 0 THEN <<>>
    ELSE LET top == Slice(SortedDesc(m), n)
             total_bytes == SumBytes(top)
         IN  [i \in 1..Len(top) |->
                [language |-> top[i].language,
                 bytes_count |-> top[i].bytes_count,
                 percentage |-> Percentage(top[i].bytes_count, total_bytes)]]

get_top_languages(m, n) ==
    IF m = <<>> THEN <<>>
    ELSE LET total_bytes == SumBytes(m)
         IN  IF total_bytes = 0 THEN <<>>
             ELSE LET top == Slice(SortedDesc(m), n)
                  IN  [i \in 1..Len(top) |->
                         [language |-> top[i].language,
                          bytes_count |-> top[i].bytes_count,
                          percentage |-> Percentage(top[i].bytes_count,
                                                    total_bytes)]]

-----------------------------------------------------------------------------
(* generate_svg                                                            *)

bar_height == 20

bar_spacing == 15

padding == 20

width == 450

header_height == 40

bar_x == 150

bar_width == width - bar_x - padding - 60

(* The file before anything was written *)
NoFile == [kind |-> "none", width |-> 0, height |-> 0, text |-> "", rows |-> <<>>]

(* The "no data" image *)
PlaceholderSvg ==
    [kind |-> "placeholder", width |-> 400, height |-> 100,
     text |-> "No languages found", rows |-> <<>>]

(* LANGUAGE_COLORS.get(language, DEFAULT_COLOR) *)
ColorOf(language) ==
    IF language \in DOMAIN LANGUAGE_COLORS THEN LANGUAGE_COLORS[language]
    ELSE DEFAULT_COLOR

(* f'{percentage:.1f}': the number of tenths nearest to num / den *)
Tenths(p) ==
    LET q == (10 * p.num) \div p.den
        r == (10 * p.num) % p.den
    IN  IF 2 * r < p.den THEN q
        ELSE IF 2 * r > p.den THEN q + 1
        ELSE IF q % 2 = 0 THEN q ELSE q + 1

(* The four elements drawn for the i-th entry *)
SvgRow(entry, i) ==
    [language |-> entry.language,
     y |-> header_height + padding + (i - 1) * (bar_height + bar_spacing),
     track_width |-> bar_width,
     fill_width |-> [num |-> entry.percentage.num * bar_width,
                     den |-> entry.percentage.den * 100],
     color |-> ColorOf(entry.language),
     label |-> Tenths(entry.percentage)]

(* Variant: no branch for the empty list *)
generate_svg_NoPlaceholder(top) ==
    [kind |-> "chart", width |-> width,
     height |-> header_height
                + (Len(top) * (bar_height + bar_spacing) - bar_spacing)
                + padding * 2,
     text |-> "Most Used Languages",
     rows |-> [i \in 1..Len(top) |-> SvgRow(top[i], i)]]

(* The content generate_svg writes to output_path *)
generate_svg(top) ==
    IF top = <<>> THEN PlaceholderSvg
    ELSE LET content_height == Len(top) * (bar_height + bar_spacing) - bar_spacing
         IN  [kind |-> "chart", width |-> width,
              height |-> header_height + content_height + padding * 2,
              text |-> "Most Used Languages",
              rows |-> [i \in 1..Len(top) |-> SvgRow(top[i], i)]]

-----------------------------------------------------------------------------
(* main                                                                    *)

(* if not repos: generate_svg([], ...); return 0 *)
MainNoRepos ==
    /\ pc = "listed"
    /\ repos = <<>>
    /\ svg' = generate_svg(<<>>)
    /\ exit_status' = <<0>>
    /\ pc' = "done"
    /\ UNCHANGED <<page, repos, listing_log, idx, language_bytes, lang_log,
                   top_n, top_languages>>

(* The call of fetch_language_stats(repos, token), up to its for loop *)
MainFetchStats ==
    /\ pc = "listed"
    /\ repos # <<>>
    /\ language_bytes' = <<>>
    /\ idx' = 1
    /\ pc' = "aggregate"
    /\ UNCHANGED <<page, repos, listing_log, lang_log, top_n, top_languages,
                   svg, exit_status>>

(* The for loop is over: top_languages = get_top_languages(.., top_n=6);   *)
(* generate_svg(top_languages, 'language_stats.svg'); return 0             *)
MainRankRender ==
    /\ pc = "aggregate"
    /\ idx > Len(repos)
    /\ top_languages' = get_top_languages(language_bytes, DefaultTopN)
    /\ svg' = generate_svg(top_languages')
    /\ exit_status' = <<0>>
    /\ pc' = "done"
    /\ UNCHANGED <<page, repos, listing_log, idx, language_bytes, lang_log,
                   top_n>>

Init ==
    /\ pc = "list"
    /\ page = 1
    /\ repos = <<>>
    /\ listing_log = <<>>
    /\ idx = 0
    /\ language_bytes = <<>>
    /\ lang_log = <<>>
    /\ top_n = DefaultTopN
    /\ top_languages = <<>>
    /\ svg = NoFile
    /\ exit_status = <<>>

Next ==
    \/ ListPageOk
    \/ ListPageEmpty
    \/ ListPageError
    \/ MainNoRepos
    \/ MainFetchStats
    \/ FetchLangSkip
    \/ FetchLangOk
    \/ FetchLangError
    \/ MainRankRender

Spec == Init /\ [][Next]_vars

(* The run is sequential and every request returns or times out, so a      *)
(* step that can be taken is taken.                                        *)
FairSpec == Init /\ [][Next]_vars /\ WF_vars(Next)

-----------------------------------------------------------------------------
(* get_top_languages and generate_svg applied to arbitrary arguments       *)

RankInit ==
    /\ pc = "rank"
    /\ page = 1
    /\ repos = <<>>
    /\ listing_log = <<>>
    /\ idx = 0
    /\ language_bytes \in ByteMaps(RankLangs, 0..MaxBytes)
    /\ lang_log = <<>>
    /\ top_n \in 0..MaxTopN
    /\ top_languages = <<>>
    /\ svg = NoFile
    /\ exit_status = <<>>

CallGetTopLanguages ==
    /\ pc = "rank"
    /\ top_languages' = get_top_languages(language_bytes, top_n)
    /\ pc' = "ranked"
    /\ UNCHANGED <<page, repos, listing_log, idx, language_bytes, lang_log,
                   top_n, svg, exit_status>>

CallGenerateSvg ==
    /\ pc = "ranked"
    /\ svg' = generate_svg(top_languages)
    /\ pc' = "rendered"
    /\ UNCHANGED <<page, repos, listing_log, idx, language_bytes, lang_log,
                   top_n, top_languages, exit_status>>

RankNext ==
    \/ CallGetTopLanguages
    \/ CallGenerateSvg

RankSpec == RankInit /\ [][RankNext]_vars

-----------------------------------------------------------------------------
(* Properties of fetch_repositories, fetch_language_stats and main,        *)
(* stated over the two histories                                           *)

Last(s) == s[Len(s)]

(* The records without the fork flag, in order *)
RECURSIVE Unforked(_)
Unforked(body) ==
    IF body = <<>> THEN <<>>
    ELSE IF Head(body).fork = TRUE THEN Unforked(Tail(body))
    ELSE <<Head(body)>> \o Unforked(Tail(body))

(* The unforked records of the pages fetched successfully, page by page *)
RECURSIVE RetainedOf(_)
RetainedOf(log) ==
    IF log = <<>> THEN <<>>
    ELSE (IF Head(log).status = "ok" THEN Unforked(Head(log).body) ELSE <<>>)
         \o RetainedOf(Tail(log))

ListingOver == pc # "list"

(* C1: a transport failure on page k stops the pagination, and the list    *)
(* returned (and kept by main ever after) is exactly what pages 1..k-1     *)
(* had retained: nothing of it is dropped, nothing is added to it.         *)
C1_FailureKeepsPartial ==
    \A k \in 1..Len(listing_log) :
        listing_log[k].status = "error" =>
            /\ k = Len(listing_log)
            /\ listing_log[k].page = k
            /\ ListingOver
            /\ repos = RetainedOf(SubSeq(listing_log, 1, k - 1))

C1_Witness ==
    /\ Len(listing_log) >= 2
    /\ Last(listing_log).status = "error"
    /\ \E i \in 1..Len(listing_log[1].body) : listing_log[1].body[i].fork
    /\ repos # <<>>
    /\ pc = "done"

(* C2: the list fetch_repositories returns, which is the list main hands   *)
(* to fetch_language_stats, holds no record with the fork flag set and is  *)
(* exactly the unforked records of the fetched pages, in page order and    *)
(* in-page order; the aggregation iterates over these records in order.    *)
C2_NoForksInOrder ==
    /\ \A i \in 1..Len(repos) : repos[i].fork = FALSE
    /\ repos = RetainedOf(listing_log)
    /\ Len(lang_log) <= Len(repos)
    /\ \A i \in 1..Len(lang_log) : lang_log[i].name = repos[i].name

C2_Witness ==
    /\ pc = "aggregate"
    /\ Len(repos) = 2
    /\ Len(lang_log) = Len(repos)
    /\ \E k \in 1..Len(listing_log) :
          /\ Len(listing_log[k].body) = 3
          /\ listing_log[k].body[2].fork
          /\ repos = <<listing_log[k].body[1], listing_log[k].body[3]>>

(* The bytes a dict holds for a language, 0 when it is no key *)
RECURSIVE BytesFor(_, _)
BytesFor(m, l) ==
    IF m = <<>> THEN 0
    ELSE (IF Head(m).language = l THEN Head(m).bytes_count ELSE 0)
         + BytesFor(Tail(m), l)

Keys(m) == {m[i].language : i \in 1..Len(m)}

(* The bytes of a language summed over the successful fetches *)
RECURSIVE FetchedBytes(_, _)
FetchedBytes(log, l) ==
    IF log = <<>> THEN 0
    ELSE (IF Head(log).status = "ok" THEN BytesFor(Head(log).languages, l) ELSE 0)
         + FetchedBytes(Tail(log), l)

FetchedKeys(log) ==
    UNION {Keys(log[i].languages) : i \in {j \in 1..Len(log) : log[j].status = "ok"}}

AggregationOver == pc = "done" /\ repos # <<>>

(* C3: a failed fetch neither ends the aggregation nor changes what the    *)
(* other repositories contribute: every repository is visited, one         *)
(* without languages_url is skipped, and the map holds for each language   *)
(* the sum of its bytes over the repositories fetched successfully.        *)
C3_FailureIsolated ==
    /\ Len(lang_log) <= Len(repos)
    /\ AggregationOver => Len(lang_log) = Len(repos)
    /\ \A i \in 1..Len(lang_log) :
          (lang_log[i].status = "skipped") <=> ~repos[i].has_url
    /\ Keys(language_bytes) = FetchedKeys(lang_log)
    /\ \A i, j \in 1..Len(language_bytes) :
          i # j => language_bytes[i].language # language_bytes[j].language
    /\ \A l \in RespLangs :
          BytesFor(language_bytes, l) = FetchedBytes(lang_log, l)

C3_Witness ==
    /\ AggregationOver
    /\ Len(lang_log) = 3
    /\ lang_log[1].status = "ok"
    /\ lang_log[2].status = "error"
    /\ lang_log[3].status = "ok"
    /\ \E l \in RespLangs :
          /\ BytesFor(lang_log[1].languages, l) = 1
          /\ BytesFor(lang_log[3].languages, l) = 1
          /\ BytesFor(language_bytes, l) = 2

(* Under the fairness of FairSpec every run reaches the exit of main *)
Termination == <>(pc = "done")

(* The order of the positions of a run *)
PcOrder(p) ==
    CASE p = "list" -> 0
      [] p = "listed" -> 1
      [] p = "aggregate" -> 2
      [] p = "done" -> 3
      [] OTHER -> 4

(* Before the exit of main some step of the program can be taken *)
StepPossible ==
    \/ pc = "list"
    \/ pc = "listed"
    \/ pc = "aggregate" /\ idx \in 1..(Len(repos) + 1)

(* C4: whatever failed on the way, a run is never stopped short of the     *)
(* exit of main and every step brings it nearer (a later position, the     *)
(* next page, the next repository); the only exit status is 0; at the exit *)
(* the image is written: the placeholder when nothing was ranked, the      *)
(* chart otherwise.                                                        *)
C4_AlwaysExitsZero ==
    /\ [](/\ pc # "done" => StepPossible
          /\ exit_status # <<>> => (exit_status = <<0>> /\ pc = "done")
          /\ pc = "done" =>
                /\ exit_status = <<0>>
                /\ svg.kind \in {"placeholder", "chart"}
                /\ (top_languages = <<>> <=> svg.kind = "placeholder"))
    /\ [][\/ PcOrder(pc') > PcOrder(pc)
          \/ pc' = pc /\ pc = "list" /\ page' = page + 1
          \/ pc' = pc /\ pc = "aggregate" /\ idx' = idx + 1 /\ repos' = repos
         ]_vars

C4_Witness ==
    /\ pc = "done"
    /\ exit_status = <<0>>
    /\ Len(listing_log) >= 2
    /\ Last(listing_log).status = "error"
    /\ \E i \in 1..Len(lang_log) : lang_log[i].status = "error"
    /\ svg.kind = "placeholder"

NonEmptyOk(entry) == entry.status = "ok" /\ entry.body # <<>>

(* C10: the listing requests are for pages 1, 2, 3, ... in this order,     *)
(* each page once; no request follows an empty page or a failure; the      *)
(* page counter moves, by one, only with a non-empty page fetched.         *)
C10_PagesInOrderOnce ==
    [][ /\ listing_log' # listing_log =>
            /\ Len(listing_log') = Len(listing_log) + 1
            /\ SubSeq(listing_log', 1, Len(listing_log)) = listing_log
            /\ Last(listing_log').page = Len(listing_log')
            /\ Last(listing_log').page = page
            /\ \A k \in 1..Len(listing_log) : NonEmptyOk(listing_log[k])
        /\ page' # page =>
            /\ page' = page + 1
            /\ listing_log' # listing_log
            /\ NonEmptyOk(Last(listing_log'))
        /\ (listing_log' # listing_log /\ NonEmptyOk(Last(listing_log'))) =>
            page' = page + 1
      ]_vars

C10_Witness ==
    /\ Len(listing_log) = 3
    /\ NonEmptyOk(listing_log[1])
    /\ NonEmptyOk(listing_log[2])
    /\ listing_log[3].status = "error"
    /\ page = 3
    /\ ListingOver

-----------------------------------------------------------------------------
(* Properties of get_top_languages and generate_svg, for the arguments of  *)
(* RankSpec                                                                *)

Ranked == pc \in {"ranked", "rendered"}

(* The total of a byte map, and its position of a language *)
GrandTotal ==
    LET RECURSIVE Total(_)
        Total(k) == IF k = 0 THEN 0 ELSE language_bytes[k].bytes_count + Total(k - 1)
    IN  Total(Len(language_bytes))

PositionOf(l) == CHOOSE i \in 1..Len(language_bytes) : language_bytes[i].language = l

TopKeys == {top_languages[i].language : i \in 1..Len(top_languages)}

(* Every entry of the ranked list is an item of the map, once *)
EntriesFromMap ==
    /\ \A i \in 1..Len(top_languages) :
          \E k \in 1..Len(language_bytes) :
              /\ language_bytes[k].language = top_languages[i].language
              /\ language_bytes[k].bytes_count = top_languages[i].bytes_count
    /\ \A i, j \in 1..Len(top_languages) :
          i # j => top_languages[i].language # top_languages[j].language

(* C5: for a map with a positive total the ranked list is in descending    *)
(* order of byte count, and entries of equal byte count keep the order     *)
(* they have in the map.                                                   *)
C5_SortedStable ==
    (Ranked /\ GrandTotal > 0) =>
        /\ EntriesFromMap
        /\ \A i, j \in 1..Len(top_languages) :
              i < j =>
                /\ top_languages[i].bytes_count >= top_languages[j].bytes_count
                /\ top_languages[i].bytes_count = top_languages[j].bytes_count
                      => PositionOf(top_languages[i].language)
                           < PositionOf(top_languages[j].language)

C5_Witness ==
    /\ Ranked
    /\ Len(top_languages) >= 3
    /\ top_languages[1].bytes_count = top_languages[2].bytes_count
    /\ top_languages[2].bytes_count > top_languages[3].bytes_count
    /\ language_bytes[1].bytes_count < language_bytes[2].bytes_count

(* C6: for N >= 0 and a map with a positive total the ranked list has      *)
(* min(N, number of languages) entries, and they are the largest of the    *)
(* map: no language left out has more bytes than one that is in.           *)
C6_TopNLargest ==
    (Ranked /\ GrandTotal > 0) =>
        /\ Len(top_languages) =
              (IF top_n < Len(language_bytes) THEN top_n ELSE Len(language_bytes))
        /\ EntriesFromMap
        /\ \A k \in 1..Len(language_bytes) :
              language_bytes[k].language \notin TopKeys =>
                  \A i \in 1..Len(top_languages) :
                      language_bytes[k].bytes_count <= top_languages[i].bytes_count

C6_Witness ==
    /\ Ranked
    /\ top_n = 2
    /\ Len(language_bytes) = 4
    /\ Len(top_languages) = 2
    /\ language_bytes[1].bytes_count = 0
    /\ language_bytes[4].bytes_count > 0

(* C7: an empty map and a map of zeros give an empty ranked list, and an   *)
(* empty ranked list gives the one placeholder image, not a chart.         *)
C7_EmptyGivesPlaceholder ==
    /\ (Ranked /\ GrandTotal = 0) => top_languages = <<>>
    /\ (pc = "rendered" /\ top_languages = <<>>) =>
          /\ svg.kind = "placeholder"
          /\ svg.width = 400
          /\ svg.height = 100
          /\ svg.text = "No languages found"
          /\ svg.rows = <<>>

C7_Witness ==
    /\ pc = "rendered"
    /\ Len(language_bytes) >= 2
    /\ GrandTotal = 0
    /\ top_n > 0
    /\ svg.kind = "placeholder"

(* The numerators of the percentages of the ranked list, summed *)
NumSum ==
    LET RECURSIVE S(_)
        S(k) == IF k = 0 THEN 0 ELSE top_languages[k].percentage.num + S(k - 1)
    IN  S(Len(top_languages))

RankedBytes ==
    LET RECURSIVE S(_)
        S(k) == IF k = 0 THEN 0 ELSE top_languages[k].bytes_count + S(k - 1)
    IN  S(Len(top_languages))

(* Every percentage is 100 * bytes_count over the total of the whole map *)
OverGrandTotal ==
    \A i \in 1..Len(top_languages) :
        /\ top_languages[i].percentage.den = GrandTotal
        /\ top_languages[i].percentage.num = 100 * top_languages[i].bytes_count

(* C8: for a map with a positive total every percentage has the total of   *)
(* the whole map as its denominator, and the percentages of the            *)
(* untruncated list sum to 100: the ranked bytes sum to the total.         *)
C8_FullListSumsTo100 ==
    (Ranked /\ GrandTotal > 0) =>
        /\ OverGrandTotal
        /\ top_n >= Len(language_bytes) =>
              /\ NumSum = 100 * GrandTotal
              /\ RankedBytes = GrandTotal

C8_Witness ==
    /\ Ranked
    /\ Len(language_bytes) = 3
    /\ top_n = 3
    /\ Len(top_languages) = 3
    /\ \A i \in 1..3 : top_languages[i].bytes_count > 0

(* C9 as stated: the percentages sum to at most 100 when the ranked list   *)
(* is the full set, and to less than 100 whenever a language is left out.  *)
C9_Original ==
    (Ranked /\ GrandTotal > 0) =>
        /\ OverGrandTotal
        /\ Len(top_languages) = Len(language_bytes) => NumSum <= 100 * GrandTotal
        /\ Len(top_languages) < Len(language_bytes) => NumSum < 100 * GrandTotal

(* A language with bytes is left out of the ranked list *)
OmitsBytes ==
    \E k \in 1..Len(language_bytes) :
        /\ language_bytes[k].language \notin TopKeys
        /\ language_bytes[k].bytes_count > 0

(* C9: the percentages sum to at most 100 when the ranked list is the full *)
(* set, to less than 100 whenever a language with a nonzero byte count is  *)
(* left out, and to 100 when every language left out has zero bytes.       *)
C9_SumBelow100IffBytesOmitted ==
    (Ranked /\ GrandTotal > 0) =>
        /\ OverGrandTotal
        /\ Len(top_languages) = Len(language_bytes) => NumSum <= 100 * GrandTotal
        /\ OmitsBytes => NumSum < 100 * GrandTotal
        /\ ~OmitsBytes => NumSum = 100 * GrandTotal

C9_Witness ==
    /\ Ranked
    /\ Len(top_languages) >= 1
    /\ OmitsBytes
    /\ NumSum < 100 * GrandTotal

====
